---- MODULE Spec2Model ----
(***************************************************************************)
(* Controller Area Network interface contracts (src/src/lib.rs): the Id,   *)
(* Filter, Frame, Transmitter and Receiver traits, modelled as a reference *)
(* controller that obeys the documented contracts.                         *)
(*                                                                         *)
(* A u32 (mask, filter pattern) is represented by the set of positions of  *)
(* its 1 bits, a subset of 0..31; this is a bijection with the 32-bit      *)
(* words and keeps bit 31 representable.                                   *)
(***************************************************************************)
EXTENDS Integers, Sequences, FiniteSets, TLC

\* ---------------------------------------------------------------- bounds
MaxIdVal == 1
NumSlots == 2
RxCap == 2

\* ------------------------------------------------------ program constants
BaseBits == 11
ExtBits == 29
ExtFlagBit == 29
FirstReservedBit == 30
WordBits == 32
ExtLowBits == ExtBits - BaseBits

\* ------------------------------------------------------------ identifiers
Pow2(n) == 2 ^ n

BitsOfVal(v, n) == {i \in 0..(n - 1) : (v \div Pow2(i)) % 2 = 1}

BaseId(v) == [ext |-> FALSE, v |-> v]
ExtendedId(v) == [ext |-> TRUE, v |-> v]

\* Option values: <<>> is None, <<x>> is Some(x)
base_id(id) == IF id.ext THEN <<>> ELSE <<id.v>>
extended_id(id) == IF id.ext THEN <<id.v>> ELSE <<>>

\* CAN arbitration order: a IdLess b means a wins the bus (higher priority)
BasePart(id) == IF id.ext THEN id.v \div Pow2(ExtLowBits) ELSE id.v
LowPart(id) == IF id.ext THEN id.v % Pow2(ExtLowBits) ELSE 0

IdLess(a, b) ==
    \/ BasePart(a) < BasePart(b)
    \/ /\ BasePart(a) = BasePart(b)
       /\ \/ ~a.ext /\ b.ext
          \/ a.ext /\ b.ext /\ LowPart(a) < LowPart(b)

\* ----------------------------------------------------------------- frames
NoId == [ext |-> FALSE, v |-> -1]
NoFrame == [id |-> NoId, kind |-> "none"]

is_remote_frame(f) == f.kind = "remote"
is_data_frame(f) == f.kind = "data"
is_base_id_frame(f) == base_id(f.id) # <<>>
is_extended_id_frame(f) == extended_id(f.id) # <<>>

\* ---------------------------------------------------------------- filters
ReservedBits == FirstReservedBit..(WordBits - 1)

NoFilter == [ok |-> FALSE, mask |-> {}, pattern |-> {}]

accept_all == [ok |-> TRUE, mask |-> {}, pattern |-> {}]

from_mask_rsv31(mask, pattern) ==
    IF (WordBits - 1) \in mask
    THEN NoFilter
    ELSE [ok |-> TRUE, mask |-> mask, pattern |-> pattern]

\* a filter with ok = FALSE stands for the panic: no filter is produced
from_mask(mask, pattern) ==
    IF mask \cap ReservedBits # {}
    THEN NoFilter
    ELSE [ok |-> TRUE, mask |-> mask, pattern |-> pattern]

from_id(id) ==
    [ok |-> TRUE,
     mask |-> 0..ExtFlagBit,
     pattern |-> IF id.ext
                 THEN BitsOfVal(id.v, ExtBits) \cup {ExtFlagBit}
                 ELSE BitsOfVal(id.v, BaseBits)]

BitsAgree(f, bits, n) ==
    \A i \in 0..(n - 1) : i \in f.mask => (i \in f.pattern <=> i \in bits)

Matches_base12(f, id) ==
    IF ~id.ext
    THEN BitsAgree(f, BitsOfVal(id.v, BaseBits), BaseBits + 1)
    ELSE /\ BitsAgree(f, BitsOfVal(id.v, ExtBits), ExtBits)
         /\ ExtFlagBit \in f.mask => ExtFlagBit \in f.pattern

Matches(f, id) ==
    IF ~id.ext
    THEN BitsAgree(f, BitsOfVal(id.v, BaseBits), BaseBits)
    ELSE /\ BitsAgree(f, BitsOfVal(id.v, ExtBits), ExtBits)
         /\ ExtFlagBit \in f.mask => ExtFlagBit \in f.pattern

\* -------------------------------------------------------- input universes
MaskBitChoices == {0, 10, 11, 29, 30, 31}
PatternBitChoices == {0, 10, 11, 29, 31}
ProbeIds ==
    {BaseId(0), BaseId(1), BaseId(2047),
     ExtendedId(0), ExtendedId(1), ExtendedId(2049), ExtendedId(536870911)}

BusIds == {BaseId(v) : v \in 0..MaxIdVal} \cup {ExtendedId(v) : v \in 0..MaxIdVal}
Frames == [id : BusIds, kind : {"data", "remote"}]
\* frames seen on the bus by the receiver, and the filters installed on it
RxFrames == {f \in Frames : is_data_frame(f)}
RxFilters ==
    {accept_all, from_id(BaseId(0)), from_id(ExtendedId(1)),
     from_mask({ExtFlagBit}, {}), from_mask({0}, {0})}

VARIABLES
    argMask, argPattern, argId, probe, filt, verdict,
    slots, txFault, txIn, txOut,
    rxBuf, rxFilter, rxPending, rxErr, rxOut,
    lastOp

filterVars == <<argMask, argPattern, argId, probe, filt, verdict>>
txVars == <<slots, txFault, txIn, txOut>>
rxVars == <<rxBuf, rxFilter, rxPending, rxErr, rxOut>>
vars == <<filterVars, txVars, rxVars, lastOp>>

NoOutcome == [kind |-> "none", frame |-> NoFrame, stale |-> FALSE]
Outcome(k, f) == [kind |-> k, frame |-> f, stale |-> FALSE]

\* the controller after construction: mailboxes and receive buffer empty,
\* every frame accepted, no request outstanding
Init ==
    /\ argMask = {}
    /\ argPattern = {}
    /\ argId = BaseId(0)
    /\ probe = BaseId(0)
    /\ filt = NoFilter
    /\ verdict = "none"
    /\ slots = [i \in 1..NumSlots |-> NoFrame]
    /\ txFault = FALSE
    /\ txIn = NoFrame
    /\ txOut = NoOutcome
    /\ rxBuf = <<>>
    /\ rxFilter = accept_all
    /\ rxPending = FALSE
    /\ rxErr = FALSE
    /\ rxOut = NoOutcome
    /\ lastOp = "init"

\* the arguments of the filter constructors and the probed identifier are
\* drawn from the input universes; the controller is idle
InitFilter ==
    /\ argMask \in SUBSET MaskBitChoices
    /\ argPattern \in SUBSET PatternBitChoices
    /\ argId \in ProbeIds
    /\ probe \in ProbeIds
    /\ filt = NoFilter
    /\ verdict = "none"
    /\ slots = [i \in 1..NumSlots |-> NoFrame]
    /\ txFault = FALSE
    /\ txIn = NoFrame
    /\ txOut = NoOutcome
    /\ rxBuf = <<>>
    /\ rxFilter = accept_all
    /\ rxPending = FALSE
    /\ rxErr = FALSE
    /\ rxOut = NoOutcome
    /\ lastOp = "init"

\* ------------------------------------------------------ filter operations
CallFromMask ==
    /\ filt' = from_mask(argMask, argPattern)
    /\ verdict' = IF filt'.ok THEN "none" ELSE "panic"
    /\ lastOp' = "from_mask"
    /\ UNCHANGED <<argMask, argPattern, argId, probe, txVars, rxVars>>

CallFromId ==
    /\ filt' = from_id(argId)
    /\ verdict' = "none"
    /\ lastOp' = "from_id"
    /\ UNCHANGED <<argMask, argPattern, argId, probe, txVars, rxVars>>

CallAcceptAll ==
    /\ filt' = accept_all
    /\ verdict' = "none"
    /\ lastOp' = "accept_all"
    /\ UNCHANGED <<argMask, argPattern, argId, probe, txVars, rxVars>>

CallMatch ==
    /\ filt.ok
    /\ lastOp \in {"from_mask", "from_id", "accept_all"}
    /\ verdict' = IF Matches(filt, probe) THEN "accept" ELSE "reject"
    /\ lastOp' = "match_" \o lastOp
    /\ UNCHANGED <<argMask, argPattern, argId, probe, filt, txVars, rxVars>>

NextFilter == CallFromMask \/ CallFromId \/ CallAcceptAll \/ CallMatch

SpecFilter == InitFilter /\ [][NextFilter]_vars

\* ------------------------------------------------------------ transmitter
Occupied(s) == {i \in 1..NumSlots : s[i] # NoFrame}
FreeSlots(s) == {i \in 1..NumSlots : s[i] = NoFrame}
Resident(s) == {s[i] : i \in Occupied(s)}

FirstOf(S) == CHOOSE i \in S : \A j \in S : i <= j

\* number of slots holding frame f
CountIn(s, f) == Cardinality({i \in 1..NumSlots : s[i] = f})

LowestPrioritySlot_first(s) == FirstOf(Occupied(s))

\* the occupied slot no other resident frame ranks below (lowest index on a tie)
LowestPrioritySlot(s) ==
    FirstOf({i \in Occupied(s) :
                \A j \in Occupied(s) : ~IdLess(s[i].id, s[j].id)})

HighestPrioritySlot(s) ==
    FirstOf({i \in Occupied(s) :
                \A j \in Occupied(s) : ~IdLess(s[j].id, s[i].id)})

Place_next(s, k, f) == [s EXCEPT ![(k % NumSlots) + 1] = f]

\* write frame f into mailbox k
Place(s, k, f) == [s EXCEPT ![k] = f]

MayReplace_orEqual(f, resident) == ~IdLess(resident.id, f.id)

\* a resident frame is replaced only by a frame of strictly higher priority
MayReplace(f, resident) == IdLess(f.id, resident.id)

Transmit(f) ==
    /\ txIn' = f
    /\ lastOp' = "transmit"
    /\ IF txFault
       THEN /\ txOut' = Outcome("Err", NoFrame)
            /\ slots' = slots
       ELSE IF FreeSlots(slots) # {}
       THEN /\ slots' = Place(slots, FirstOf(FreeSlots(slots)), f)
            /\ txOut' = Outcome("OkNone", NoFrame)
       ELSE LET k == LowestPrioritySlot(slots) IN
            IF MayReplace(f, slots[k])
            THEN /\ slots' = Place(slots, k, f)
                 /\ txOut' = Outcome("OkSome", slots[k])
            ELSE /\ slots' = slots
                 /\ txOut' = Outcome("WouldBlock", NoFrame)
    /\ UNCHANGED <<txFault, filterVars, rxVars>>

\* the controller wins arbitration and sends its highest-priority frame
BusSend ==
    /\ ~txFault
    /\ Occupied(slots) # {}
    /\ slots' = [slots EXCEPT ![HighestPrioritySlot(slots)] = NoFrame]
    /\ lastOp' = "sent"
    /\ UNCHANGED <<txFault, txIn, txOut, filterVars, rxVars>>

TxFault ==
    /\ ~txFault
    /\ txFault' = TRUE
    /\ lastOp' = "tx_fault"
    /\ UNCHANGED <<slots, txIn, txOut, filterVars, rxVars>>

TxRecover ==
    /\ txFault
    /\ txFault' = FALSE
    /\ lastOp' = "tx_recover"
    /\ UNCHANGED <<slots, txIn, txOut, filterVars, rxVars>>

NextTx == (\E f \in Frames : Transmit(f)) \/ BusSend \/ TxFault \/ TxRecover

SpecTx == Init /\ [][NextTx]_vars

\* --------------------------------------------------------------- receiver
Entry(f, st) == [frame |-> f, stale |-> st]
Queued(buf) == {buf[i].frame : i \in 1..Len(buf)}
RemoveAt(buf, k) == [i \in 1..(Len(buf) - 1) |-> IF i < k THEN buf[i] ELSE buf[i + 1]]

NextIndex_fifo(buf) == 1

\* position of the queued frame with the highest priority (oldest on a tie)
NextIndex(buf) ==
    FirstOf({i \in 1..Len(buf) :
                \A j \in 1..Len(buf) : ~IdLess(buf[j].frame.id, buf[i].frame.id)})

Admits_any(filter, f) == TRUE

\* the acceptance test the controller applies to a frame on the bus
Admits(filter, f) == Matches(filter, f.id)

Retained_purge(buf, filter) == SelectSeq(buf, LAMBDA e : Admits(filter, e.frame))

\* what set_filter leaves in the receive buffer: everything, marked as
\* received under an earlier filter
Retained(buf, filter) == [i \in 1..Len(buf) |-> Entry(buf[i].frame, TRUE)]

FrameArrives(f) ==
    /\ Len(rxBuf) < RxCap
    /\ Admits(rxFilter, f)
    /\ rxBuf' = Append(rxBuf, Entry(f, FALSE))
    /\ lastOp' = "arrive"
    /\ UNCHANGED <<rxFilter, rxPending, rxErr, rxOut, filterVars, txVars>>

\* receive(): the future is created; the caller is suspended on it
Receive ==
    /\ ~rxPending
    /\ rxPending' = TRUE
    /\ rxOut' = NoOutcome
    /\ lastOp' = "receive"
    /\ UNCHANGED <<rxBuf, rxFilter, rxErr, filterVars, txVars>>

Ready_always(buf, err) == TRUE

\* the pending future can complete: an error is latched or a frame is queued
Ready(buf, err) == err \/ Len(buf) > 0

\* the future completes: a latched error is reported first, otherwise the
\* queued frame of highest priority is taken out of the buffer (a future
\* completing with nothing queued would hand back no frame at all)
ReceiveComplete ==
    /\ rxPending
    /\ Ready(rxBuf, rxErr)
    /\ rxPending' = FALSE
    /\ lastOp' = "receive_done"
    /\ IF rxErr
       THEN /\ rxOut' = Outcome("Err", NoFrame)
            /\ rxErr' = FALSE
            /\ rxBuf' = rxBuf
       ELSE IF Len(rxBuf) = 0
       THEN /\ rxOut' = Outcome("Frame", NoFrame)
            /\ UNCHANGED <<rxErr, rxBuf>>
       ELSE LET k == NextIndex(rxBuf) IN
            /\ rxOut' = [kind |-> "Frame", frame |-> rxBuf[k].frame,
                         stale |-> rxBuf[k].stale]
            /\ rxBuf' = RemoveAt(rxBuf, k)
            /\ rxErr' = rxErr
    /\ UNCHANGED <<rxFilter, filterVars, txVars>>

SetFilter(f) ==
    /\ rxFilter' = f
    /\ rxBuf' = Retained(rxBuf, f)
    /\ lastOp' = "set_filter"
    /\ UNCHANGED <<rxPending, rxErr, rxOut, filterVars, txVars>>

ClearFilter ==
    /\ rxFilter' = accept_all
    /\ rxBuf' = Retained(rxBuf, accept_all)
    /\ lastOp' = "clear_filter"
    /\ UNCHANGED <<rxPending, rxErr, rxOut, filterVars, txVars>>

RxError ==
    /\ ~rxErr
    /\ rxErr' = TRUE
    /\ lastOp' = "rx_error"
    /\ UNCHANGED <<rxBuf, rxFilter, rxPending, rxOut, filterVars, txVars>>

NextRx ==
    \/ \E f \in RxFrames : FrameArrives(f)
    \/ Receive
    \/ ReceiveComplete
    \/ \E f \in RxFilters : SetFilter(f)
    \/ ClearFilter
    \/ RxError

SpecRx == Init /\ [][NextRx]_vars

\* ------------------------------------------- transmitter and receiver
\* One controller that is both Transmitter and Receiver, driven with two
\* base-id data frames; the executor polls a woken receive future, hence the
\* weak fairness on its completion.
LiveFrames == {[id |-> BaseId(v), kind |-> "data"] : v \in {0, 1}}

NextCan ==
    \/ \E f \in LiveFrames : Transmit(f)
    \/ BusSend
    \/ TxFault
    \/ TxRecover
    \/ \E f \in LiveFrames : FrameArrives(f)
    \/ Receive
    \/ ReceiveComplete
    \/ RxError

SpecCan ==
    /\ Init
    /\ [][NextCan]_vars
    /\ WF_vars(ReceiveComplete)

\* --------------------------------------------------- filter properties
LowBits(w) == w \cap (0..10)

\* C5: from_mask fails (produces no filter) exactly when the mask has bit 30
\* or bit 31 set, whatever the pattern is; it succeeds when both are clear.
C5_FromMaskReserved ==
    lastOp = "from_mask" => (~filt.ok <=> (30 \in argMask \/ 31 \in argMask))

C5_Witness ==
    /\ lastOp = "from_mask"
    /\ 30 \in argMask /\ 31 \notin argMask /\ 31 \in argPattern
    /\ ~filt.ok /\ verdict = "panic"

\* C6: a mask filter with mask bit 29 and pattern bit 29 set rejects every
\* Base identifier, and one with mask bit 29 set and pattern bit 29 clear
\* rejects every Extended identifier.
C6_ClassBitSelects ==
    (lastOp = "match_from_mask" /\ 29 \in filt.mask) =>
        /\ (29 \in filt.pattern /\ ~probe.ext) => verdict = "reject"
        /\ (29 \notin filt.pattern /\ probe.ext) => verdict = "reject"

\* C7: from_id(id) accepts an identifier exactly when it has the class and
\* the value of id.
C7_ExactFilter ==
    lastOp = "match_from_id" => (verdict = "accept" <=> probe = argId)

TransmitStep == lastOp' = "transmit"
Full(s) == \A i \in 1..NumSlots : s[i] # NoFrame

\* resident frames that no other resident frame ranks below
LowestResidents(s) ==
    {r \in Resident(s) : \A q \in Resident(s) : ~IdLess(r.id, q.id)}

\* C1: on a working controller with every slot occupied, a frame whose
\* identifier is numerically lower than that of the lowest-priority resident
\* frame (same class) is accepted and that resident frame, the one with the
\* numerically highest identifier, is returned; never would-block.
C1_EvictsLowestPriority ==
    [][(/\ TransmitStep /\ ~txFault /\ Full(slots)
        /\ \E r \in LowestResidents(slots) :
              r.id.ext = txIn'.id.ext /\ txIn'.id.v < r.id.v)
       => /\ txOut'.kind = "OkSome"
          /\ txOut'.frame \in LowestResidents(slots)
          /\ \A r \in Resident(slots) :
                r.id.ext = txOut'.frame.id.ext => r.id.v <= txOut'.frame.id.v]_vars

C1_Witness ==
    /\ lastOp = "transmit" /\ txOut.kind = "OkSome" /\ Full(slots)
    /\ txOut.frame.id.ext = txIn.id.ext /\ txIn.id.v < txOut.frame.id.v
    /\ \E r \in Resident(slots) : r # txIn /\ IdLess(r.id, txOut.frame.id)

\* C2: on a working controller with every slot occupied by frames of equal
\* or higher priority than the incoming frame, transmit returns would-block,
\* an outcome different from displaced-frame success and from hard error.
C2_WouldBlock ==
    [][(/\ TransmitStep /\ ~txFault /\ Full(slots)
        /\ \A r \in Resident(slots) : ~IdLess(txIn'.id, r.id)
        /\ \A r \in Resident(slots) :
              r.id.ext = txIn'.id.ext => r.id.v <= txIn'.id.v)
       => /\ txOut'.kind = "WouldBlock"
          /\ txOut'.kind \notin {"OkNone", "OkSome", "Err"}
          /\ txOut'.frame = NoFrame]_vars

C2_Witness ==
    /\ lastOp = "transmit" /\ txOut.kind = "WouldBlock" /\ Full(slots)
    /\ \E i \in 1..NumSlots : slots[i].id = txIn.id
    /\ \E i \in 1..NumSlots : IdLess(slots[i].id, txIn.id)

Accepted(o) == o.kind \in {"OkNone", "OkSome"}

\* C10: transmit conserves frames: the slots never hold more frames than
\* there are slots; old residents plus an accepted incoming frame equal new
\* residents plus the returned frame; a free-slot success returns no frame;
\* would-block and hard error leave the slots unchanged.
C10_Conservation ==
    [][TransmitStep =>
        /\ Cardinality(Occupied(slots')) <= NumSlots
        /\ \A g \in Frames :
              CountIn(slots', g) + (IF txOut'.frame = g THEN 1 ELSE 0)
                = CountIn(slots, g) + (IF Accepted(txOut') /\ txIn' = g THEN 1 ELSE 0)
        /\ txOut'.kind = "OkNone" =>
              /\ txOut'.frame = NoFrame
              /\ Cardinality(Occupied(slots')) = Cardinality(Occupied(slots)) + 1
        /\ txOut'.kind = "OkSome" =>
              /\ txOut'.frame \in Resident(slots)
              /\ Cardinality(Occupied(slots')) = Cardinality(Occupied(slots))
        /\ txOut'.kind \in {"WouldBlock", "Err"} =>
              slots' = slots /\ txOut'.frame = NoFrame]_vars

C10_Witness ==
    /\ lastOp = "transmit" /\ txOut.kind = "OkSome"
    /\ txIn \in Resident(slots) /\ txOut.frame \notin Resident(slots)
    /\ Full(slots)

\* ------------------------------------------------- receiver properties
ReceiveYields == lastOp' = "receive_done" /\ rxOut'.kind = "Frame"

\* C3: a receive() that yields a frame yields the queued frame of lowest
\* identifier: no frame queued when it completes, and none left behind,
\* ranks above the yielded one.
C3_LowestFirst ==
    [][ReceiveYields =>
        /\ rxOut'.frame \in Queued(rxBuf)
        /\ \A g \in Queued(rxBuf) \cup Queued(rxBuf') :
              /\ ~IdLess(g.id, rxOut'.frame.id)
              /\ g.id.ext = rxOut'.frame.id.ext => rxOut'.frame.id.v <= g.id.v]_vars

C3_Witness ==
    /\ lastOp = "receive_done" /\ rxOut.kind = "Frame"
    /\ \E g \in Queued(rxBuf) :
          g.id.ext = rxOut.frame.id.ext /\ rxOut.frame.id.v < g.id.v

\* C4: a frame yielded by receive() matches the filter in force unless it
\* was already in the receive buffer when that filter was set; set_filter
\* removes no buffered frame.
C4_FilterNotRetroactive ==
    /\ []((lastOp = "receive_done" /\ rxOut.kind = "Frame")
            => (Matches(rxFilter, rxOut.frame.id) \/ rxOut.stale))
    /\ [][lastOp' = "set_filter" =>
            /\ Len(rxBuf') = Len(rxBuf)
            /\ \A i \in 1..Len(rxBuf) : rxBuf'[i].frame = rxBuf[i].frame]_vars

C4_Witness ==
    /\ lastOp = "receive_done" /\ rxOut.kind = "Frame"
    /\ rxOut.stale /\ ~Matches(rxFilter, rxOut.frame.id)
    /\ rxFilter # accept_all

====
